---- MODULE Spec2Model ----
(***************************************************************************)
(* Model of .myob/scripts/download_resources.py: the manifest processor    *)
(* process_resources and the fetcher download_github_file.                 *)
(*                                                                         *)
(* Strings are sequences of atoms (a character, or a run of characters     *)
(* that the code never looks inside); the empty sequence is the empty      *)
(* string and also stands for Python's None where the code only tests      *)
(* truthiness.  A URL is the sequence of its "/"-separated pieces, the     *)
(* first piece being scheme and host.  Manifest rows are well formed:      *)
(* every column of section 6 of the specification is present in every row. *)
(***************************************************************************)
EXTENDS Integers, Sequences, FiniteSets, TLC

VARIABLES
    category_filter,   \* process_resources argument
    license_filter,    \* process_resources argument
    max_downloads,     \* process_resources argument: <<>> (None) or <<n>>
    caller,            \* who called download_github_file
    pc,                \* position of the single thread
    nrows,             \* rows the csv reader has handed out so far
    row,               \* the row just read, until the loop body has used it
    total_resources, downloaded, skipped, failed,
    url_info, output_path, hosted_path, resource_license,
    download_success,  \* return value of download_github_file
    retry_count,       \* retry_count of the innermost frame
    wait_time,         \* last backoff wait, in ticks
    response,          \* response of the top-level request of the frame
    items, item_i,     \* directory listing and loop position in it
    file_response,     \* response of the last per-entry download
    net_calls,         \* requests.get calls issued by the innermost frame
    archive_written,   \* the fetcher has written under the row's output_path
    hosted_written     \* the row's hosted_path has been written

vars == <<category_filter, license_filter, max_downloads, caller,
          pc, nrows, row, total_resources, downloaded, skipped, failed,
          url_info, output_path, hosted_path, resource_license,
          download_success, retry_count, wait_time, response, items, item_i,
          file_response, net_calls, archive_written, hosted_written>>

config == <<category_filter, license_filter, max_downloads, caller>>
counters == <<total_resources, downloaded, skipped, failed>>
row_locals == <<url_info, output_path, hosted_path, resource_license>>
fetch_locals == <<retry_count, wait_time, response, items, item_i, file_response,
                  net_calls>>
files == <<archive_written, hosted_written>>

----------------------------------------------------------------------------
(* Bounds of the model *)
MaxRows == 2
MaxCap == 1
MaxItems == 1
TicksPerSecond == 1

(* Program constants *)
max_retries == 3

None == <<>>
WS == " "
HOSTED_OUTPUT_DIR == "resources"
DEFAULT_OUTPUT_DIR == ".myob/downloads"

OPEN_SOURCE_LICENSES ==
    {"MIT", "Apache-2.0", "BSD-2-Clause", "BSD-3-Clause", "GPL-2.0", "GPL-3.0",
     "LGPL-2.1", "LGPL-3.0", "MPL-2.0", "ISC", "0BSD", "Unlicense", "CC0-1.0",
     "CC-BY-4.0", "CC-BY-SA-4.0", "AGPL-3.0", "EPL-2.0", "BSL-1.0"}

CATEGORY_MAPPING(c) ==
    CASE c = <<"Slash-Commands">> -> "slash_command"
      [] c = <<"CLAUDE.md Files">> -> "claude_md"
      [] c = <<"Workflows & Knowledge Guides">> -> "workflow"
      [] c = <<"Tooling">> -> "tooling"
      [] c = <<"Official Documentation">> -> "blog"
      [] c = <<" Implementation">> -> "implementation"
      [] OTHER -> "other"

----------------------------------------------------------------------------
(* str.strip(), str.upper() and truthiness *)
RECURSIVE lstrip(_)
lstrip(s) == IF s # <<>> /\ Head(s) = WS THEN lstrip(Tail(s)) ELSE s

RECURSIVE rstrip(_)
rstrip(s) == IF s # <<>> /\ s[Len(s)] = WS THEN rstrip(SubSeq(s, 1, Len(s) - 1)) ELSE s

strip(s) == rstrip(lstrip(s))

upper_char(c) ==
    CASE c = "t" -> "T" [] c = "r" -> "R" [] c = "u" -> "U" [] c = "e" -> "E"
      [] c = "f" -> "F" [] c = "a" -> "A" [] c = "l" -> "L" [] c = "s" -> "S"
      [] OTHER -> c

upper(s) == [i \in DOMAIN s |-> upper_char(s[i])]

TRUE_LITERAL == <<"T", "R", "U", "E">>

\* a string or None used as a condition: None and "" are false
Truthy(x) == x # <<>>

\* an optional integer used as a condition: None and 0 are false
TruthyInt(x) == x # <<>> /\ x[1] # 0

----------------------------------------------------------------------------
(* parse_github_url *)
GITHUB == "https://github.com"
GIST == "https://gist.github.com"

NoInfo == [type |-> "none"]

IsFileUrl(u) == Len(u) >= 6 /\ u[1] = GITHUB /\ u[4] \in {"blob", "raw"}
IsDirUrl(u) == Len(u) >= 6 /\ u[1] = GITHUB /\ u[4] = "tree"
IsRepoUrl(u) == /\ Len(u) \in {3, 4}
                /\ u[1] = GITHUB
                /\ u[2] # "" /\ u[3] # ""
                /\ (Len(u) = 4 => u[4] = "")
IsGistUrl(u) == Len(u) >= 3 /\ u[1] = GIST

parse_github_url(u) ==
    CASE IsFileUrl(u) -> [type |-> "file", owner |-> u[2], repo |-> u[3],
                          branch |-> u[5], path |-> SubSeq(u, 6, Len(u))]
      [] ~IsFileUrl(u) /\ IsDirUrl(u) ->
                         [type |-> "dir", owner |-> u[2], repo |-> u[3],
                          branch |-> u[5], path |-> SubSeq(u, 6, Len(u))]
      [] ~IsFileUrl(u) /\ ~IsDirUrl(u) /\ IsRepoUrl(u) ->
                         [type |-> "repo", owner |-> u[2], repo |-> u[3]]
      [] ~IsFileUrl(u) /\ ~IsDirUrl(u) /\ ~IsRepoUrl(u) /\ IsGistUrl(u) ->
                         [type |-> "gist", owner |-> u[2], gist_id |-> u[3]]
      [] OTHER -> NoInfo

----------------------------------------------------------------------------
(* Inputs: manifest rows, arguments, HTTP responses *)
FILE_URL == <<GITHUB, "acme", "repo", "blob", "main", "tool.py">>
DIR_URL == <<GITHUB, "acme", "repo", "tree", "main", "cmd">>
REPO_URL == <<GITHUB, "acme", "repo">>
GIST_URL == <<GIST, "acme", "abc123">>
OTHER_URL == <<"https://example.com", "doc">>

Actives == {TRUE_LITERAL, <<"t", "r", "u", "e">>, <<"T", "r", "u", "e">>,
            <<"F", "A", "L", "S", "E">>, <<>>}
Categories == {<<"Tooling">>, <<"Hooks">>}
Licenses == {<<"MIT">>, <<WS, "MIT">>, <<"Proprietary">>}
Links == {<<>>, <<WS>>, FILE_URL, DIR_URL, REPO_URL, GIST_URL, OTHER_URL}

Row(a, c, l, p, s) ==
    [Active |-> a, Category |-> c, License |-> l, Primary |-> p, Secondary |-> s]

\* the rows of the manifest: every link shape under every license, the
\* secondary link as fallback, and the other spellings of Active and Category
Rows ==
    {Row(TRUE_LITERAL, <<"Tooling">>, l, p, <<>>) :
        l \in Licenses, p \in {FILE_URL, DIR_URL, GIST_URL}}
    \cup {Row(TRUE_LITERAL, <<"Tooling">>, <<"MIT">>, p, <<>>) : p \in Links}
    \cup {Row(TRUE_LITERAL, <<"Tooling">>, <<"MIT">>, <<WS>>, <<WS>> \o GIST_URL)}
    \cup {Row(a, <<"Tooling">>, <<"MIT">>, FILE_URL, <<>>) : a \in Actives}
    \cup {Row(TRUE_LITERAL, c, <<"MIT">>, FILE_URL, <<>>) : c \in Categories}

\* the CSV file has this many rows
manifest_len == MaxRows

NoRow == [Active |-> <<>>, Category |-> <<>>, License |-> <<>>,
          Primary |-> <<>>, Secondary |-> <<>>]

NoResponse == [raised |-> FALSE, status_code |-> 0]
StatusCodes == {200, 404, 429, 500}
\* what requests.get can do: raise, or return a response with a status
Responses == {[raised |-> TRUE, status_code |-> 0]} \cup
             {[raised |-> FALSE, status_code |-> c] : c \in StatusCodes}

\* what the download of one listed entry can do; only 200 is told apart
EntryResponses == {[raised |-> TRUE, status_code |-> 0]} \cup
                  {[raised |-> FALSE, status_code |-> c] : c \in {200, 404}}

\* a directory listing: the type of each entry
ItemLists == UNION {[1..n -> {"file", "dir"}] : n \in 0..MaxItems}

\* random.uniform(1, 2) in ticks: a <= N <= b, either end can be returned
uniform_1_2 == TicksPerSecond .. 2 * TicksPerSecond

----------------------------------------------------------------------------
(* process_resources: the per-row decisions *)
\* IsActive with the flag tested for truthiness instead of being compared
IsActiveNonEmpty(r) == r.Active # <<>>

IsActive(r) == upper(r.Active) = TRUE_LITERAL

PassesFilters(r) ==
    /\ ~(Truthy(category_filter) /\ r.Category # category_filter)
    /\ ~(Truthy(license_filter) /\ r.License # license_filter)

ResolveUrl(r) == IF strip(r.Primary) # <<>> THEN strip(r.Primary) ELSE strip(r.Secondary)

IsOpenSource(lic) == Len(lic) = 1 /\ lic[1] \in OPEN_SOURCE_LICENSES

LimitReached == TruthyInt(max_downloads) /\ downloaded >= max_downloads[1]

PathShape(info) ==
    CASE info.type = "gist" -> <<"safe_name-gist">>
      [] info.type = "file" -> <<"safe_name", info.path[Len(info.path)]>>
      [] OTHER -> <<"safe_name">>

HostedShape(info) ==
    IF info.type = "file" THEN <<"safe_name", info.path[Len(info.path)]>>
    ELSE <<"safe_name">>

ResourcePath(r, info) == <<DEFAULT_OUTPUT_DIR>> \o r.Category \o PathShape(info)

\* HostedPath without the license test
HostedPathAnyLicense(r, info) ==
    <<HOSTED_OUTPUT_DIR, CATEGORY_MAPPING(r.Category)>> \o HostedShape(info)

HostedPath(r, info) ==
    IF IsOpenSource(strip(r.License))
    THEN <<HOSTED_OUTPUT_DIR, CATEGORY_MAPPING(r.Category)>> \o HostedShape(info)
    ELSE None


----------------------------------------------------------------------------
(* Initial states: a run of process_resources, or a direct call of the     *)
(* fetcher with a classified reference of any of the four variants.        *)
InitCommon ==
    /\ nrows = 0 /\ row = NoRow
    /\ total_resources = 0 /\ downloaded = 0 /\ skipped = 0 /\ failed = 0
    /\ hosted_path = None /\ resource_license = None
    /\ download_success = FALSE
    /\ retry_count = 0 /\ wait_time = 0 /\ response = NoResponse
    /\ items = <<>> /\ item_i = 0 /\ file_response = NoResponse
    /\ net_calls = 0
    /\ archive_written = FALSE /\ hosted_written = FALSE

InitRun ==
    /\ caller = "process_resources"
    /\ category_filter \in {None, <<"Tooling">>}
    /\ license_filter \in {None, <<"MIT">>}
    /\ max_downloads \in {None} \cup {<<n>> : n \in 0..MaxCap}
    /\ pc = "loop"
    /\ url_info = NoInfo /\ output_path = None
    /\ InitCommon

InitCall ==
    /\ caller = "direct"
    /\ category_filter = None /\ license_filter = None /\ max_downloads = None
    /\ pc = "request"
    /\ url_info \in {parse_github_url(u) : u \in {FILE_URL, DIR_URL, REPO_URL, GIST_URL}}
    /\ output_path = <<DEFAULT_OUTPUT_DIR, "out">>
    /\ InitCommon

Init == InitRun \/ InitCall

----------------------------------------------------------------------------
(* process_resources: the loop 239-344, one action per path through its    *)
(* body.  A row is dead once the body has read its columns (the last read  *)
(* is at 269), and the body's locals are dead once the row is done: each   *)
(* is assigned again before it is next read.                               *)

\* 239: the csv reader hands out the next row
NextRow ==
    /\ pc = "loop"
    /\ nrows < manifest_len
    /\ \E r \in Rows : row' = r
    /\ nrows' = nrows + 1
    /\ pc' = "row"
    /\ UNCHANGED <<config, counters, row_locals, download_success, fetch_locals, files>>

\* 239: the reader is exhausted, the loop ends
Exhausted ==
    /\ pc = "loop"
    /\ nrows = manifest_len
    /\ pc' = "summary"
    /\ UNCHANGED <<config, nrows, row, counters, row_locals, download_success,
                   fetch_locals, files>>

\* 241-243: the download limit is reached, break
ReachedLimit ==
    /\ pc = "row"
    /\ LimitReached
    /\ pc' = "summary"
    /\ row' = NoRow
    /\ UNCHANGED <<config, nrows, counters, row_locals, download_success,
                   fetch_locals, files>>

\* 246-247: inactive row
SkipInactive ==
    /\ pc = "row"
    /\ ~LimitReached
    /\ ~IsActive(row)
    /\ pc' = "loop"
    /\ row' = NoRow
    /\ UNCHANGED <<config, nrows, counters, row_locals, download_success,
                   fetch_locals, files>>

\* FilteredOut with the rejected row counted as skipped
FilteredOutSkipped ==
    /\ pc = "row"
    /\ ~LimitReached
    /\ IsActive(row)
    /\ ~PassesFilters(row)
    /\ total_resources' = total_resources + 1
    /\ skipped' = skipped + 1
    /\ pc' = "loop"
    /\ row' = NoRow
    /\ UNCHANGED <<config, nrows, downloaded, failed, row_locals,
                   download_success, fetch_locals, files>>

\* 249-256: active row rejected by the category or license filter
FilteredOut ==
    /\ pc = "row"
    /\ ~LimitReached
    /\ IsActive(row)
    /\ ~PassesFilters(row)
    /\ total_resources' = total_resources + 1
    /\ pc' = "loop"
    /\ row' = NoRow
    /\ UNCHANGED <<config, nrows, downloaded, skipped, failed, row_locals,
                   download_success, fetch_locals, files>>

\* 259-261: no URL in either link column
NoUrl ==
    /\ pc = "row"
    /\ ~LimitReached
    /\ IsActive(row)
    /\ PassesFilters(row)
    /\ ~Truthy(ResolveUrl(row))
    /\ total_resources' = total_resources + 1
    /\ pc' = "loop"
    /\ row' = NoRow
    /\ UNCHANGED <<config, nrows, downloaded, skipped, failed, row_locals,
                   download_success, fetch_locals, files>>

\* 275-279: the URL matches no pattern
NotGithub ==
    /\ pc = "row"
    /\ ~LimitReached
    /\ IsActive(row)
    /\ PassesFilters(row)
    /\ Truthy(ResolveUrl(row))
    /\ parse_github_url(ResolveUrl(row)).type = "none"
    /\ total_resources' = total_resources + 1
    /\ skipped' = skipped + 1
    /\ pc' = "loop"
    /\ row' = NoRow
    /\ UNCHANGED <<config, nrows, downloaded, failed, row_locals,
                   download_success, fetch_locals, files>>

\* SkipRepo without its continue: the row goes on to the fetcher
SkipRepoFallsThrough ==
    /\ pc = "row"
    /\ ~LimitReached
    /\ IsActive(row)
    /\ PassesFilters(row)
    /\ Truthy(ResolveUrl(row))
    /\ parse_github_url(ResolveUrl(row)).type = "repo"
    /\ total_resources' = total_resources + 1
    /\ skipped' = skipped + 1
    /\ url_info' = parse_github_url(ResolveUrl(row))
    /\ output_path' = ResourcePath(row, url_info')
    /\ resource_license' = strip(row.License)
    /\ pc' = "request"
    /\ row' = NoRow
    /\ UNCHANGED <<config, nrows, downloaded, failed, hosted_path,
                   download_success, fetch_locals, files>>

\* 292-296: a bare repository
SkipRepo ==
    /\ pc = "row"
    /\ ~LimitReached
    /\ IsActive(row)
    /\ PassesFilters(row)
    /\ Truthy(ResolveUrl(row))
    /\ parse_github_url(ResolveUrl(row)).type = "repo"
    /\ total_resources' = total_resources + 1
    /\ skipped' = skipped + 1
    /\ pc' = "loop"
    /\ row' = NoRow
    /\ UNCHANGED <<config, nrows, downloaded, failed, row_locals,
                   download_success, fetch_locals, files>>

\* 263-318: file, directory or gist: compute the paths, call the fetcher
StartDownload ==
    /\ pc = "row"
    /\ ~LimitReached
    /\ IsActive(row)
    /\ PassesFilters(row)
    /\ Truthy(ResolveUrl(row))
    /\ parse_github_url(ResolveUrl(row)).type \in {"file", "dir", "gist"}
    /\ total_resources' = total_resources + 1
    /\ url_info' = parse_github_url(ResolveUrl(row))
    /\ output_path' = ResourcePath(row, url_info')
    /\ hosted_path' = HostedPath(row, url_info')
    /\ resource_license' = strip(row.License)
    /\ pc' = "request"
    /\ row' = NoRow
    /\ UNCHANGED <<config, nrows, downloaded, skipped, failed, download_success,
                   fetch_locals, files>>

----------------------------------------------------------------------------
(* download_github_file 139-211 *)
\* IsRateLimited with the 429 test left out
NeverRateLimited(resp) == FALSE

IsRateLimited(resp) == resp.status_code = 429

\* WaitTime with 2 * retry_count for 2 ** retry_count
WaitTimeLinear(rc, jitter) == (2 * rc) * TicksPerSecond + jitter

\* 205: wait_time = 2**retry_count + random.uniform(1, 2), in ticks
WaitTime(rc, jitter) == (2 ^ rc) * TicksPerSecond + jitter

\* what follows a top-level response that did not return True: 198-201, 203
AfterFailure(resp) ==
    IF resp.raised \/ IsRateLimited(resp)
    THEN /\ pc' = "except"
         /\ UNCHANGED download_success
    ELSE /\ pc' = "returned"
         /\ download_success' = FALSE

\* 145-157: single file
RequestFile ==
    /\ pc = "request" /\ url_info.type = "file"
    /\ \E resp \in Responses :
        /\ response' = resp
        /\ net_calls' = net_calls + 1
        /\ IF ~resp.raised /\ resp.status_code = 200
           THEN /\ archive_written' = TRUE
                /\ download_success' = TRUE
                /\ pc' = "returned"
           ELSE /\ AfterFailure(resp)
                /\ UNCHANGED archive_written
    /\ UNCHANGED <<config, nrows, row, counters, row_locals, retry_count, wait_time,
                   items, item_i, file_response, hosted_written>>

\* 159-169: directory listing
RequestDir ==
    /\ pc = "request" /\ url_info.type = "dir"
    /\ \E resp \in Responses :
        /\ response' = resp
        /\ net_calls' = net_calls + 1
        /\ IF ~resp.raised /\ resp.status_code = 200
           THEN /\ archive_written' = TRUE
                /\ \E its \in ItemLists : items' = its
                /\ item_i' = 1
                /\ pc' = "items"
                /\ UNCHANGED download_success
           ELSE /\ AfterFailure(resp)
                /\ UNCHANGED <<archive_written, items, item_i>>
    /\ UNCHANGED <<config, nrows, row, counters, row_locals, retry_count, wait_time,
                   file_response, hosted_written>>

\* DirItem without the test of the entry's type
DirItemAnyType ==
    /\ pc = "items" /\ item_i <= Len(items)
    /\ \E fr \in EntryResponses :
          /\ file_response' = fr
          /\ net_calls' = net_calls + 1
          /\ IF fr.raised
             THEN pc' = "except" /\ UNCHANGED item_i
             ELSE pc' = "items" /\ item_i' = item_i + 1
    /\ UNCHANGED <<config, nrows, row, counters, row_locals, download_success,
                   retry_count, wait_time, response, items, files>>

\* 170-177: one entry of the listing
DirItem ==
    /\ pc = "items" /\ item_i <= Len(items)
    /\ IF items[item_i] = "file"
       THEN \E fr \in EntryResponses :
               /\ file_response' = fr
               /\ net_calls' = net_calls + 1
               /\ IF fr.raised
                  THEN pc' = "except" /\ UNCHANGED item_i
                  ELSE pc' = "items" /\ item_i' = item_i + 1
       ELSE /\ item_i' = item_i + 1
            /\ UNCHANGED <<pc, file_response, net_calls>>
    /\ UNCHANGED <<config, nrows, row, counters, row_locals, download_success,
                   retry_count, wait_time, response, items, files>>

\* 178: the listing is done
DirDone ==
    /\ pc = "items" /\ item_i > Len(items)
    /\ download_success' = TRUE
    /\ pc' = "returned"
    /\ UNCHANGED <<config, nrows, row, counters, row_locals, fetch_locals, files>>

\* 180-195: gist
RequestGist ==
    /\ pc = "request" /\ url_info.type = "gist"
    /\ \E resp \in Responses :
        /\ response' = resp
        /\ net_calls' = net_calls + 1
        /\ IF ~resp.raised /\ resp.status_code = 200
           THEN /\ archive_written' = TRUE
                /\ download_success' = TRUE
                /\ pc' = "returned"
           ELSE /\ AfterFailure(resp)
                /\ UNCHANGED archive_written
    /\ UNCHANGED <<config, nrows, row, counters, row_locals, retry_count, wait_time,
                   items, item_i, file_response, hosted_written>>

\* 145-198 with type "repo": no branch is taken, no request is made, and the
\* read of the unbound local `response` at 198 raises into the handler at 203
RequestRepo ==
    /\ pc = "request" /\ url_info.type = "repo"
    /\ pc' = "except"
    /\ UNCHANGED <<config, nrows, row, counters, row_locals, download_success,
                   fetch_locals, files>>

\* 204-208: sleep, then the same call again in a new frame, retry_count + 1
Retry ==
    /\ pc = "except"
    /\ retry_count < max_retries
    /\ \E jitter \in uniform_1_2 : wait_time' = WaitTime(retry_count, jitter)
    /\ retry_count' = retry_count + 1
    /\ response' = NoResponse /\ items' = <<>> /\ item_i' = 0
    /\ file_response' = NoResponse /\ net_calls' = 0
    /\ pc' = "request"
    /\ UNCHANGED <<config, nrows, row, counters, row_locals, download_success, files>>

\* 210-211: retries exhausted
GiveUp ==
    /\ pc = "except"
    /\ ~(retry_count < max_retries)
    /\ download_success' = FALSE
    /\ pc' = "returned"
    /\ UNCHANGED <<config, nrows, row, counters, row_locals, fetch_locals, files>>

----------------------------------------------------------------------------
(* process_resources 318-344: after the fetcher has returned *)
\* the fetcher's frames are gone
FramesPopped ==
    /\ retry_count' = 0 /\ wait_time' = 0 /\ response' = NoResponse
    /\ items' = <<>> /\ item_i' = 0 /\ file_response' = NoResponse
    /\ net_calls' = 0

\* 320-325
DownloadSucceeded ==
    /\ pc = "returned" /\ caller = "process_resources"
    /\ download_success
    /\ downloaded' = downloaded + 1
    /\ pc' = IF Truthy(hosted_path) /\ IsOpenSource(resource_license)
             THEN "copy" ELSE "sleep"
    /\ FramesPopped
    /\ UNCHANGED <<config, nrows, row, total_resources, skipped, failed, row_locals,
                   download_success, files>>

\* 326-338: the copy into the hosted tree succeeds or raises
HostedCopy ==
    /\ pc = "copy"
    /\ \E copied \in BOOLEAN : hosted_written' = copied
    /\ pc' = "sleep"
    /\ UNCHANGED <<config, nrows, row, counters, row_locals, download_success,
                   fetch_locals, archive_written>>

\* DownloadFailed with the failure ending the run
DownloadFailedAborts ==
    /\ pc = "returned" /\ caller = "process_resources"
    /\ ~download_success
    /\ failed' = failed + 1
    /\ pc' = "aborted"
    /\ FramesPopped
    /\ UNCHANGED <<config, nrows, row, total_resources, downloaded, skipped,
                   row_locals, download_success, files>>

\* 339-341
DownloadFailed ==
    /\ pc = "returned" /\ caller = "process_resources"
    /\ ~download_success
    /\ failed' = failed + 1
    /\ pc' = "sleep"
    /\ FramesPopped
    /\ UNCHANGED <<config, nrows, row, total_resources, downloaded, skipped,
                   row_locals, download_success, files>>

\* 343-344: the delay before the next row; the row is done
RowDone ==
    /\ pc = "sleep"
    /\ url_info' = NoInfo /\ output_path' = None /\ hosted_path' = None
    /\ resource_license' = None
    /\ download_success' = FALSE
    /\ archive_written' = FALSE /\ hosted_written' = FALSE
    /\ pc' = "loop"
    /\ UNCHANGED <<config, nrows, row, counters, fetch_locals>>

----------------------------------------------------------------------------
Next ==
    \/ NextRow
    \/ Exhausted
    \/ ReachedLimit
    \/ SkipInactive
    \/ FilteredOut
    \/ NoUrl
    \/ NotGithub
    \/ SkipRepo
    \/ StartDownload
    \/ RequestFile
    \/ RequestDir
    \/ DirItem
    \/ DirDone
    \/ RequestGist
    \/ RequestRepo
    \/ Retry
    \/ GiveUp
    \/ DownloadSucceeded
    \/ HostedCopy
    \/ DownloadFailed
    \/ RowDone

Spec == Init /\ [][Next]_vars

\* the single thread always takes its next step: nothing else is scheduled
FairSpec == Spec /\ WF_vars(Next)

----------------------------------------------------------------------------
(* Vocabulary of the properties *)
\* this step runs the loop body on `row` (the loop did not break at 243)
RowTaken == pc = "row" /\ pc' # "summary"

LinksEmpty(r) == strip(r.Primary) = <<>> /\ strip(r.Secondary) = <<>>

InFetcher == pc \in {"request", "items", "except"}

DSF == downloaded + skipped + failed

\* seconds to ticks
Seconds(n) == n * TicksPerSecond

\* this step is the sleep before retry number retry_count'
RetryStep == pc = "except" /\ pc' = "request"

\* this step makes the top-level request of a file, directory or gist
TopLevelAnswer == pc = "request" /\ url_info.type \in {"file", "dir", "gist"}

----------------------------------------------------------------------------
(* C1: an active row that passes the filters and has both link columns     *)
(* empty after stripping adds exactly 1 to skipped, leaves downloaded and  *)
(* failed unchanged and never reaches the fetcher.                         *)
C1_EmptyLinksCountedSkipped ==
    [][(RowTaken /\ upper(row.Active) = TRUE_LITERAL /\ PassesFilters(row)
            /\ LinksEmpty(row))
        => (/\ skipped' = skipped + 1
            /\ downloaded' = downloaded
            /\ failed' = failed
            /\ pc' = "loop"
            /\ net_calls' = net_calls)]_vars

(* C2: with a cap N >= 0 set, downloaded never exceeds N and the fetcher   *)
(* is never running in a state where downloaded >= N.                      *)
C2_CapNeverExceeded ==
    max_downloads # None =>
        /\ downloaded <= max_downloads[1]
        /\ (InFetcher => downloaded < max_downloads[1])

(* C3 as written: a row whose Active field is not the literal "TRUE"       *)
(* leaves the four counters unchanged and performs no fetch.               *)
C3_NotLiteralTrueIgnored ==
    [][(pc = "row" /\ row.Active # TRUE_LITERAL)
        => (counters' = counters /\ pc' \in {"loop", "summary"}
            /\ net_calls' = net_calls)]_vars

(* C3 amended: a row whose Active field, upper-cased, is not "TRUE" leaves *)
(* the four counters unchanged and performs no fetch.                      *)
C3_InactiveIgnored ==
    [][(pc = "row" /\ upper(row.Active) # TRUE_LITERAL)
        => (counters' = counters /\ pc' \in {"loop", "summary"}
            /\ net_calls' = net_calls)]_vars

\* every row of the manifest was read, none was counted, the loop never broke
C3_Witness ==
    /\ pc = "loop" /\ nrows = manifest_len
    /\ max_downloads = None
    /\ total_resources = 0

(* C4: a row whose stripped license is outside the open-source set has no  *)
(* hosted path and nothing of it is written to the hosted tree, whatever   *)
(* the fetch does; the hosted tree is written only after a successful      *)
(* archive fetch of a row whose license is in the set.                     *)
C4_HostedOnlyOpenSource ==
    /\ [][(pc = "row" /\ pc' = "request")
          => (/\ resource_license' = strip(row.License)
              /\ (~IsOpenSource(strip(row.License)) => hosted_path' = None))]_vars
    /\ []((caller = "process_resources"
             /\ (InFetcher \/ pc \in {"returned", "copy", "sleep"})
             /\ ~IsOpenSource(resource_license))
          => (hosted_path = None /\ ~hosted_written))
    /\ [][(hosted_written' /\ ~hosted_written)
          => (/\ download_success
              /\ archive_written
              /\ IsOpenSource(resource_license))]_vars

C4_Witness ==
    /\ pc = "sleep"
    /\ resource_license = <<"Proprietary">>
    /\ download_success /\ downloaded = 1
    /\ archive_written /\ ~hosted_written

(* C5 as written: a fetch whose attempts all fail makes at most            *)
(* max_retries retries and then returns False; the wait before the k-th    *)
(* retry lies in [2^(k-1)+1, 2^(k-1)+2) seconds and successive waits       *)
(* strictly increase.                                                      *)
C5_WaitHalfOpenIncreasing ==
    /\ [](retry_count <= max_retries)
    /\ [][(pc = "except" /\ pc' = "returned")
          => (retry_count = max_retries /\ ~download_success')]_vars
    /\ [][RetryStep
          => (/\ wait_time' >= Seconds(2 ^ (retry_count' - 1) + 1)
              /\ wait_time' < Seconds(2 ^ (retry_count' - 1) + 2)
              /\ (retry_count' > 1 => wait_time' > wait_time))]_vars

(* C5 amended: at most max_retries retries, then False; the wait before    *)
(* the k-th retry lies in the closed interval [2^(k-1)+1, 2^(k-1)+2]       *)
(* seconds and successive waits never decrease.                            *)
C5_WaitClosedNonDecreasing ==
    /\ [](retry_count <= max_retries)
    /\ [][(pc = "except" /\ pc' = "returned")
          => (retry_count = max_retries /\ ~download_success')]_vars
    /\ [][RetryStep
          => (/\ wait_time' >= Seconds(2 ^ (retry_count' - 1) + 1)
              /\ wait_time' <= Seconds(2 ^ (retry_count' - 1) + 2)
              /\ (retry_count' > 1 => wait_time' >= wait_time))]_vars

C5_Witness ==
    /\ pc = "returned" /\ ~download_success
    /\ retry_count = max_retries
    /\ response.raised
    /\ wait_time = Seconds(2 ^ (max_retries - 1) + 2)

(* C6 as written: for a file, directory or gist reference, an attempt that *)
(* ends in any error (raised failure, 429, or another non-2xx status) with *)
(* fewer than max_retries retries made is followed by a retry of the same  *)
(* call, never by an immediate failure.                                    *)
C6_AnyErrorRetried ==
    /\ [][(TopLevelAnswer /\ (response'.raised \/ response'.status_code # 200)
             /\ retry_count < max_retries)
          => pc' = "except"]_vars
    /\ [][(pc = "except" /\ retry_count < max_retries)
          => (/\ pc' = "request"
              /\ retry_count' = retry_count + 1
              /\ url_info' = url_info
              /\ output_path' = output_path)]_vars

(* C6 amended: an attempt that ends in a raised exception (a raised        *)
(* network failure, on the top-level request or on an entry's download, or *)
(* a 429 on the top-level request) with fewer than max_retries retries     *)
(* made is followed by a retry of the same call; any other non-200 status  *)
(* on the top-level request returns False at once, without a retry.        *)
C6_RaisedErrorRetried ==
    /\ [][(TopLevelAnswer /\ (response'.raised \/ response'.status_code = 429))
          => pc' = "except"]_vars
    /\ [][(pc = "items" /\ file_response' # file_response /\ file_response'.raised)
          => pc' = "except"]_vars
    /\ [][(pc = "except" /\ retry_count < max_retries)
          => (/\ pc' = "request"
              /\ retry_count' = retry_count + 1
              /\ url_info' = url_info
              /\ output_path' = output_path)]_vars
    /\ [][(TopLevelAnswer /\ ~response'.raised /\ response'.status_code \notin {200, 429})
          => (/\ pc' = "returned"
              /\ ~download_success'
              /\ retry_count' = retry_count)]_vars

C6_Witness ==
    /\ pc = "returned" /\ ~download_success
    /\ retry_count = 1
    /\ ~response.raised /\ response.status_code = 404

(* C7: the fetcher, given a bare-repository reference, issues no network   *)
(* request, writes nothing and returns failure; the processor counts such  *)
(* a row as skipped (downloaded and failed unchanged) without calling the  *)
(* fetcher and without writing to the archive or hosted tree.              *)
C7_RepositoryRefused ==
    /\ [](url_info.type = "repo"
          => (net_calls = 0 /\ ~archive_written /\ ~hosted_written
              /\ ~download_success))
    /\ [][(RowTaken /\ upper(row.Active) = TRUE_LITERAL /\ PassesFilters(row)
             /\ ~LinksEmpty(row)
             /\ parse_github_url(ResolveUrl(row)).type = "repo")
          => (/\ skipped' = skipped + 1
              /\ downloaded' = downloaded
              /\ failed' = failed
              /\ pc' = "loop"
              /\ net_calls' = net_calls
              /\ ~archive_written' /\ ~hosted_written')]_vars

C7_Witness ==
    /\ caller = "direct" /\ url_info.type = "repo"
    /\ pc = "returned" /\ ~download_success
    /\ net_calls = 0

(* C8 as written: once the listing of a directory has succeeded the fetch  *)
(* returns True whatever the per-entry downloads do (non-200 or raised),   *)
(* the listing is not requested again, and entries that are not files are  *)
(* not downloaded.                                                         *)
C8_EntryFailuresAbsorbed ==
    [][pc = "items"
        => (/\ pc' \in {"items", "returned"}
            /\ (pc' = "returned" => download_success')
            /\ ((item_i <= Len(items) /\ items[item_i] # "file")
                  => net_calls' = net_calls))]_vars

(* C8 amended: once the listing has succeeded, a non-200 status on an      *)
(* entry's download is absorbed (the loop goes on, the listing is not      *)
(* requested again, the fetch returns True at the end of the listing); a   *)
(* raised error on an entry's download leaves the loop for the retry       *)
(* handler; entries that are not files are not downloaded.                 *)
C8_EntryStatusAbsorbed ==
    [][pc = "items"
        => (/\ pc' \in {"items", "returned", "except"}
            /\ (pc' = "returned" => download_success')
            /\ (pc' = "except"
                  => (/\ item_i <= Len(items) /\ items[item_i] = "file"
                      /\ file_response'.raised))
            /\ ((item_i <= Len(items) /\ items[item_i] = "file"
                   /\ net_calls' = net_calls + 1 /\ ~file_response'.raised)
                  => (pc' = "items" /\ item_i' = item_i + 1))
            /\ ((item_i <= Len(items) /\ items[item_i] # "file")
                  => (net_calls' = net_calls /\ pc' = "items"
                      /\ item_i' = item_i + 1)))]_vars

C8_Witness ==
    /\ pc = "returned" /\ download_success
    /\ url_info.type = "dir"
    /\ ~file_response.raised /\ file_response.status_code = 404

(* C9: every run of process_resources reaches the summary, and only after  *)
(* exhausting the manifest or reaching the cap; a failed fetch adds 1 to   *)
(* failed and the scan goes on with the next row; an error of the hosted   *)
(* copy leaves the row counted as downloaded.                              *)
C9_RunReachesSummary ==
    /\ (caller = "process_resources" => <>(pc = "summary"))
    /\ [](pc = "summary"
          => (\/ nrows = manifest_len
              \/ (max_downloads # None /\ downloaded >= max_downloads[1])))
    /\ [][nrows' \in {nrows, nrows + 1}]_vars
    /\ [][(caller = "process_resources" /\ pc = "returned" /\ ~download_success)
          => (failed' = failed + 1 /\ pc' = "sleep" /\ nrows' = nrows)]_vars
    /\ [][pc = "copy" => (counters' = counters /\ pc' = "sleep")]_vars
    /\ [][pc = "sleep" => (counters' = counters /\ pc' = "loop")]_vars

C9_Witness ==
    /\ pc = "summary"
    /\ nrows = manifest_len
    /\ failed >= 1 /\ downloaded >= 1

(* C10: downloaded + skipped + failed <= total_resources always; no        *)
(* counter decreases; one row adds at most 1 to total_resources and adds   *)
(* exactly 1 to at most one of downloaded, skipped, failed; a row rejected *)
(* by the category or license filter adds to total_resources only.         *)
C10_CounterDiscipline ==
    /\ [](DSF <= total_resources)
    /\ [][/\ total_resources' \in {total_resources, total_resources + 1}
          /\ downloaded' \in {downloaded, downloaded + 1}
          /\ skipped' \in {skipped, skipped + 1}
          /\ failed' \in {failed, failed + 1}
          /\ DSF' \in {DSF, DSF + 1}
          /\ (total_resources' # total_resources => RowTaken)
          /\ (DSF' # DSF => ((RowTaken /\ pc' = "loop") \/ pc = "returned"))
          /\ (pc = "returned" => pc' \in {"sleep", "copy"})
          /\ (pc \in {"loop", "copy", "sleep"} => counters' = counters)]_vars
    /\ [][(RowTaken /\ upper(row.Active) = TRUE_LITERAL /\ ~PassesFilters(row))
          => (/\ total_resources' = total_resources + 1
              /\ downloaded' = downloaded
              /\ skipped' = skipped
              /\ failed' = failed
              /\ pc' = "loop")]_vars

C10_Witness ==
    /\ pc = "summary"
    /\ category_filter = <<"Tooling">>
    /\ total_resources = 2 /\ downloaded = 1 /\ skipped = 0 /\ failed = 0

====
